---------------------------- MODULE Spec2Model ----------------------------
(***************************************************************************)
(* Model of the departure-board server of src/server.js (the variant that  *)
(* starts at line 152): the calendar resolver, the station clusterer, the  *)
(* timetable build, the live-feed cache and the request handlers.          *)
(*                                                                         *)
(* Text is modelled as a sequence of one-character strings, so that        *)
(* padding, concatenation, trimming and the lexicographic comparison of    *)
(* JavaScript strings are computed, not assumed.                           *)
(***************************************************************************)
EXTENDS Integers, Sequences, FiniteSets, TLC

VARIABLES
    \* ---- calendar resolver (getActiveServiceIds) ----
    calCivil,        \* the wall-clock fields printed by toLocaleString
    calendar,        \* rows of calendar.txt
    calendarDates,   \* rows of calendar_dates.txt
    calPc,           \* "ready" | "done"
    effDateOut,      \* effectiveDateStr computed by the call
    todayOut,        \* todayName computed by the call
    activeOut,       \* the returned Set
    \* ---- live feed cache (getLiveFeed) ----
    cachedLiveData,  \* null or the last decoded delay map
    lastLiveFetch,   \* Date.now() of the call that stored cachedLiveData
    clock,           \* Date.now(), in ms
    call,            \* per caller: where its getLiveFeed call stands
    \* ---- station clusterer, on its own ----
    clStops,         \* rows of stops.txt
    clPc,            \* "ready" | "done"
    clOut,           \* the maps and the list the clustering produced
    \* ---- the server: module state, the refresh tasks and the readers ----
    wall,            \* the wall clock in Europe/Zagreb: a Date
    disk,            \* the extracted feed files: None, or the tables
    routesMap,       \* route_id -> route_short_name
    staticSchedule,  \* station name -> departure records
    stationList,     \* sorted station names
    stationLocations,\* station name -> coordinate
    loadedDateStr,   \* the date the snapshot was loaded for, "" at first
    task,            \* per refresh task: its position and its local variables
    timer,           \* None, or Some(the instant the armed setTimeout is due)
    published,       \* (history) the snapshot as the last completed build left it
    obs,             \* (history) what the read request handled in the last step saw
    builtFor,        \* (history) the service day of the last getActiveServiceIds call
    \* ---- the request handlers, on their own ----
    reqNow,          \* app.get('/api/board'): the Date of the request
    reqSchedule,     \* the departure list of the station asked for
    reqLiveDelays,   \* the map getLiveFeed returned
    reqPc,           \* "ready" | "done"
    res,             \* the board sent, and (history) the entries computed for it
    nearEntries,     \* app.get('/api/nearest'): Object.entries(stationLocations),
                     \* each with its distance from the query point
    nearPc,          \* "ready" | "done"
    nearRes          \* the response sent

calVars == <<calCivil, calendar, calendarDates, calPc, effDateOut, todayOut, activeOut>>

liveVars == <<cachedLiveData, lastLiveFetch, clock, call>>

clusterVars == <<clStops, clPc, clOut>>

snapVars == <<routesMap, staticSchedule, stationList, stationLocations, loadedDateStr>>

srvVars == <<wall, disk, snapVars, task, timer, published, obs, builtFor>>

reqVars == <<reqNow, reqSchedule, reqLiveDelays, reqPc, res, nearEntries, nearPc, nearRes>>

vars == <<calVars, liveVars, clusterVars, srvVars, reqVars>>

\* null / undefined, and a present value, of a variable that may hold either
None == <<>>

Some(x) == <<x>>

IsSome(o) == o # <<>>

Get(o) == o[1]

-----------------------------------------------------------------------------
(* Each specification below exercises one part of the program and leaves    *)
(* the variables of the other parts at rest.                                *)

\* the calendar resolver's variables at rest
CalIdle ==
    /\ calCivil = [y |-> 1970, m |-> 1, d |-> 1, h |-> 0, mi |-> 0]
    /\ calendar = <<>>
    /\ calendarDates = <<>>
    /\ calPc = "idle"
    /\ effDateOut = <<>>
    /\ todayOut = "none"
    /\ activeOut = {}

\* the live cache as the module leaves it at load time, with no caller
LiveIdle ==
    /\ cachedLiveData = None
    /\ lastLiveFetch = 0
    /\ clock = 0
    /\ call = <<>>

\* the stand-alone clusterer at rest
ClusterIdle ==
    /\ clStops = <<>>
    /\ clPc = "idle"
    /\ clOut = <<>>

\* the server not started
ServerIdle ==
    /\ wall = [day |-> 0, hour |-> 0, min |-> 0]
    /\ disk = None
    /\ routesMap = <<>>
    /\ staticSchedule = <<>>
    /\ stationList = <<>>
    /\ stationLocations = <<>>
    /\ loadedDateStr = <<>>
    /\ task = <<>>
    /\ timer = None
    /\ published = None
    /\ obs = None
    /\ builtFor = <<>>

\* no request being handled by the stand-alone handlers
ReqIdle ==
    /\ reqNow = [day |-> 0, hour |-> 0, min |-> 0]
    /\ reqSchedule = <<>>
    /\ reqLiveDelays = <<>>
    /\ reqPc = "idle"
    /\ res = None
    /\ nearEntries = <<>>
    /\ nearPc = "idle"
    /\ nearRes = None

-----------------------------------------------------------------------------
(* Text helpers                                                             *)

Digits == <<"0", "1", "2", "3", "4", "5", "6", "7", "8", "9">>

DigitChar(n) == Digits[n + 1]

IsDigit(c) == \E i \in 1..10 : Digits[i] = c

DigitVal(c) == (CHOOSE i \in 1..10 : Digits[i] = c) - 1

\* Number.prototype.toString / String(n) for a non-negative integer
RECURSIVE NumStr(_)
NumStr(n) == IF n < 10 THEN <<DigitChar(n)>>
             ELSE NumStr(n \div 10) \o <<DigitChar(n % 10)>>

\* String.prototype.padStart(len, ch)
RECURSIVE padStart(_, _, _)
padStart(s, len, ch) == IF Len(s) >= len THEN s ELSE padStart(<<ch>> \o s, len, ch)

Upper == << "A", "B", "C", "D", "E", "F", "G", "H", "I", "J", "K", "L", "M",
            "N", "O", "P", "Q", "R", "S", "T", "U", "V", "W", "X", "Y", "Z" >>

\* UTF-16 code units of the characters the model uses
CharCodes ==
    [c \in {" ", "(", ")", ":"} \cup {Digits[i] : i \in 1..10} \cup {Upper[i] : i \in 1..26} |->
        CASE c = " " -> 32
          [] c = "(" -> 40
          [] c = ")" -> 41
          [] c = ":" -> 58
          [] IsDigit(c) -> 48 + DigitVal(c)
          [] OTHER -> 64 + (CHOOSE i \in 1..26 : Upper[i] = c)]

CharCode(c) == CharCodes[c]

\* a < b for JavaScript strings: code unit by code unit, a proper prefix first
RECURSIVE StrLess(_, _)
StrLess(a, b) ==
    IF b = <<>> THEN FALSE
    ELSE IF a = <<>> THEN TRUE
    ELSE IF CharCode(Head(a)) # CharCode(Head(b)) THEN CharCode(Head(a)) < CharCode(Head(b))
    ELSE StrLess(Tail(a), Tail(b))

StrLeq(a, b) == a = b \/ StrLess(a, b)

StrGeq(a, b) == StrLeq(b, a)

-----------------------------------------------------------------------------
(* The Date object: a day number since 1970-01-01 and a time of day, with   *)
(* the field accessors of ECMAScript (Day Number, Year Number, Month Number,*)
(* Date Number, Week Day, MakeDay).                                         *)

DaysInYear(y) == IF y % 4 # 0 THEN 365
                 ELSE IF y % 100 # 0 THEN 366
                 ELSE IF y % 400 # 0 THEN 365 ELSE 366

DayFromYear(y) == 365 * (y - 1970) + ((y - 1969) \div 4) - ((y - 1901) \div 100)
                  + ((y - 1601) \div 400)

\* Year Number: the largest y with DayFromYear(y) <= d (a year has 365 or 366 days)
YearFromDay(d) ==
    CHOOSE y \in (1970 + d \div 366)..(1970 + d \div 365) :
        DayFromYear(y) <= d /\ d < DayFromYear(y + 1)

InLeapYear(d) == IF DaysInYear(YearFromDay(d)) = 366 THEN 1 ELSE 0

DayWithinYear(d) == d - DayFromYear(YearFromDay(d))

\* Month Number, 0..11
MonthFromDay(d) ==
    LET w == DayWithinYear(d)
        l == InLeapYear(d)
    IN  IF w < 31 THEN 0
        ELSE IF w < 59 + l THEN 1
        ELSE IF w < 90 + l THEN 2
        ELSE IF w < 120 + l THEN 3
        ELSE IF w < 151 + l THEN 4
        ELSE IF w < 181 + l THEN 5
        ELSE IF w < 212 + l THEN 6
        ELSE IF w < 243 + l THEN 7
        ELSE IF w < 273 + l THEN 8
        ELSE IF w < 304 + l THEN 9
        ELSE IF w < 334 + l THEN 10
        ELSE 11

\* day within year of the first day of month m (0..11) of a year that is leap (l = 1) or not
MonthStart(m, l) ==
    CASE m = 0 -> 0
      [] m = 1 -> 31
      [] m = 2 -> 59 + l
      [] m = 3 -> 90 + l
      [] m = 4 -> 120 + l
      [] m = 5 -> 151 + l
      [] m = 6 -> 181 + l
      [] m = 7 -> 212 + l
      [] m = 8 -> 243 + l
      [] m = 9 -> 273 + l
      [] m = 10 -> 304 + l
      [] m = 11 -> 334 + l

\* Date Number, 1..31
DateFromDay(d) == DayWithinYear(d) - MonthStart(MonthFromDay(d), InLeapYear(d)) + 1

\* MakeDay(year, month, date): the day number of (year, month, 1) plus date - 1;
\* a date of 0 or less lands in the month before
MakeDay(y, m, dt) ==
    DayFromYear(y) + MonthStart(m, IF DaysInYear(y) = 366 THEN 1 ELSE 0) + dt - 1

\* new Date("M/D/YYYY, h:mm:ss"): the fields are read as local time
NewDate(civil) ==
    [day |-> MakeDay(civil.y, civil.m - 1, civil.d), hour |-> civil.h, min |-> civil.mi]

getHours(now) == now.hour

getMinutes(now) == now.min

getFullYear(now) == YearFromDay(now.day)

getMonth(now) == MonthFromDay(now.day)

getDate(now) == DateFromDay(now.day)

\* Week Day: 0 = Sunday; 1970-01-01 was a Thursday
getDay(now) == (now.day + 4) % 7

\* Date.prototype.setDate(dt): the time of day is kept
setDate(now, dt) ==
    [now EXCEPT !.day = MakeDay(getFullYear(now), getMonth(now), dt)]

-----------------------------------------------------------------------------
(* getActiveServiceIds                                                      *)

NightCutoff == 4

\* "if (now.getHours() < 4) now.setDate(now.getDate() - 1)", with an hour before 3 only
ServiceDayEarlyCutoff(now) ==
    IF getHours(now) < NightCutoff - 1 THEN setDate(now, getDate(now) - 1) ELSE now

\* the reference instant after the night shift: "yesterday" before 04:00
ServiceDay(now) ==
    IF getHours(now) < NightCutoff THEN setDate(now, getDate(now) - 1) ELSE now

\* `${yyyy}${mm}${dd}` of a Date
DateStr(now) ==
    NumStr(getFullYear(now))
      \o padStart(NumStr(getMonth(now) + 1), 2, "0")
      \o padStart(NumStr(getDate(now)), 2, "0")

effectiveDateStr(now) == DateStr(ServiceDay(now))

days == <<"sunday", "monday", "tuesday", "wednesday", "thursday", "friday", "saturday">>

todayName(now) == days[getDay(ServiceDay(now)) + 1]

\* the inclusive range test with the upper bound exclusive
CalendarRowActiveExclusiveEnd(row, today, eff) ==
    row[today] = "1" /\ StrGeq(eff, row.start_date) /\ StrLess(eff, row.end_date)

\* the condition of the calendar.forEach body
CalendarRowActive(row, today, eff) ==
    row[today] = "1" /\ StrGeq(eff, row.start_date) /\ StrLeq(eff, row.end_date)

\* calendar.forEach(...): the base pass
RECURSIVE BasePass(_, _, _, _)
BasePass(rows, today, eff, acc) ==
    IF rows = <<>> THEN acc
    ELSE BasePass(Tail(rows), today, eff,
                  IF CalendarRowActive(Head(rows), today, eff)
                  THEN acc \cup {Head(rows).service_id} ELSE acc)

\* one exception row that only ever adds
ApplyExceptionAddOnly(row, eff, acc) ==
    IF row.date = eff /\ row.exception_type = "1" THEN acc \cup {row.service_id} ELSE acc

\* the body of calendarDates.forEach
ApplyException(row, eff, acc) ==
    IF row.date = eff
    THEN IF row.exception_type = "1" THEN acc \cup {row.service_id}
         ELSE IF row.exception_type = "2" THEN acc \ {row.service_id}
         ELSE acc
    ELSE acc

\* calendarDates.forEach(...): the exception pass, in row order
RECURSIVE ExceptionPass(_, _, _)
ExceptionPass(rows, eff, acc) ==
    IF rows = <<>> THEN acc
    ELSE ExceptionPass(Tail(rows), eff, ApplyException(Head(rows), eff, acc))

getActiveServiceIds(now, cal, calDates) ==
    LET eff == effectiveDateStr(now)
        today == todayName(now)
    IN  ExceptionPass(calDates, eff, BasePass(cal, today, eff, {}))

-----------------------------------------------------------------------------
(* Inputs of the calendar resolver                                          *)

SeqsUpTo(S, n) == UNION {[1..k -> S] : k \in 0..n}

DaysInMonthCivil(y, m) ==
    IF m = 2 THEN (IF DaysInYear(y) = 366 THEN 29 ELSE 28)
    ELSE IF m \in {4, 6, 9, 11} THEN 30 ELSE 31

ProbeYears == {2023, 2024}

ProbeHours == {0, 3, 4, 23}

\* every wall-clock instant of the probe years at the probe hours
ProbeCivils ==
    {[y |-> y, m |-> m, d |-> d, h |-> h, mi |-> 0] :
        y \in ProbeYears, m \in 1..12, d \in 1..31, h \in ProbeHours}

ValidCivil(c) == c.d <= DaysInMonthCivil(c.y, c.m)

D1231 == <<"2", "0", "2", "3", "1", "2", "3", "1">>

D0101 == <<"2", "0", "2", "4", "0", "1", "0", "1">>

\* 2024-01-01 03:00 (service day Sunday 2023-12-31), 2024-01-01 04:00 and
\* 2024-01-02 00:00 (service day Monday 2024-01-01)
FocusCivils ==
    { [y |-> 2024, m |-> 1, d |-> 1, h |-> 3, mi |-> 0],
      [y |-> 2024, m |-> 1, d |-> 1, h |-> 4, mi |-> 0],
      [y |-> 2024, m |-> 1, d |-> 2, h |-> 0, mi |-> 0] }

ServiceIds == {"S1", "S2"}

DateRanges == { <<D1231, D1231>>, <<D0101, D0101>> }

\* the services that have rows in calendar.txt; S2 is known from exceptions only
CalendarServiceIds == {"S1"}

\* weekday-only and weekend-only rows over the two ranges
CalendarRows ==
    { [service_id |-> s, sunday |-> f[2], monday |-> f[1], tuesday |-> f[1],
       wednesday |-> f[1], thursday |-> f[1], friday |-> f[1], saturday |-> f[2],
       start_date |-> r[1], end_date |-> r[2]] :
        s \in CalendarServiceIds, f \in {<<"1", "0">>, <<"0", "1">>}, r \in DateRanges }

ExceptionRows ==
    { [service_id |-> s, date |-> d, exception_type |-> t] :
        s \in ServiceIds, d \in {D1231, D0101}, t \in {"1", "2"} }

MaxCalendarRows == 2

MaxExceptionRows == 2

-----------------------------------------------------------------------------
(* DateSpec: the service day of every instant of the probe years            *)

\* a calendar whose seven services each run on one weekday, all year round
WeekdayProbeCalendar ==
    [i \in 1..7 |->
        [service_id |-> days[i],
         sunday |-> IF i = 1 THEN "1" ELSE "0", monday |-> IF i = 2 THEN "1" ELSE "0",
         tuesday |-> IF i = 3 THEN "1" ELSE "0", wednesday |-> IF i = 4 THEN "1" ELSE "0",
         thursday |-> IF i = 5 THEN "1" ELSE "0", friday |-> IF i = 6 THEN "1" ELSE "0",
         saturday |-> IF i = 7 THEN "1" ELSE "0",
         start_date |-> <<"2", "0", "0", "0", "0", "1", "0", "1">>,
         end_date |-> <<"2", "0", "9", "9", "1", "2", "3", "1">>]]

DateInit ==
    /\ LiveIdle
    /\ ClusterIdle
    /\ ServerIdle
    /\ ReqIdle
    /\ calCivil \in {c \in ProbeCivils : ValidCivil(c)}
    /\ calendar = WeekdayProbeCalendar
    /\ calendarDates = <<>>
    /\ calPc = "ready"
    /\ effDateOut = <<>>
    /\ todayOut = "none"
    /\ activeOut = {}

\* one call of getActiveServiceIds at the instant calCivil
Resolve ==
    /\ calPc = "ready"
    /\ \E now \in {NewDate(calCivil)} :
           /\ effDateOut' = effectiveDateStr(now)
           /\ todayOut' = todayName(now)
           /\ activeOut' = getActiveServiceIds(now, calendar, calendarDates)
    /\ calPc' = "done"
    /\ UNCHANGED <<calCivil, calendar, calendarDates>>
    /\ UNCHANGED <<liveVars, clusterVars, srvVars, reqVars>>

DateNext == Resolve

DateSpec == DateInit /\ [][DateNext]_vars

-----------------------------------------------------------------------------
(* CalSpec: the resolver over bounded calendars at the focus instants       *)

CalInit ==
    /\ LiveIdle
    /\ ClusterIdle
    /\ ServerIdle
    /\ ReqIdle
    /\ calCivil \in FocusCivils
    /\ calendar \in SeqsUpTo(CalendarRows, MaxCalendarRows)
    /\ calendarDates \in SeqsUpTo(ExceptionRows, MaxExceptionRows)
    /\ calPc = "ready"
    /\ effDateOut = <<>>
    /\ todayOut = "none"
    /\ activeOut = {}

CalNext == Resolve

CalSpec == CalInit /\ [][CalNext]_vars

-----------------------------------------------------------------------------
(* getLiveFeed: the time-boxed cache of the realtime delay map              *)

EmptyMap == <<>>

\* obj[k] = v on a plain object
MapSet(m, k, v) == [x \in DOMAIN m \cup {k} |-> IF x = k THEN v ELSE m[x]]

\* a || b on optional numbers: the first operand unless it is falsy (undefined, 0)
OrElse(a, b) == IF a = None \/ a = Some(0) THEN b ELSE a

\* x?.delay: undefined when x is absent
OptDelay(x) == IF x = None THEN None ELSE Some(Get(x).delay)

\* the forEach body over feed.entity: the first stop-time update decides
LiveEntry(liveMap, e) ==
    IF IsSome(e.tripUpdate) /\ Len(Get(e.tripUpdate).stopTimeUpdate) > 0
    THEN LET stu == Get(e.tripUpdate).stopTimeUpdate[1]
         IN  MapSet(liveMap, Get(e.tripUpdate).trip.tripId,
                    Get(OrElse(OrElse(OptDelay(stu.departure), OptDelay(stu.arrival)), Some(0))))
    ELSE liveMap

RECURSIVE BuildLiveMap(_, _)
BuildLiveMap(entities, liveMap) ==
    IF entities = <<>> THEN liveMap
    ELSE BuildLiveMap(Tail(entities), LiveEntry(liveMap, Head(entities)))

CacheWindow == 8000

\* the freshness test with the window taken in seconds
CacheFreshSeconds(now) ==
    IsSome(cachedLiveData) /\ now - lastLiveFetch < CacheWindow \div 1000

\* "cachedLiveData && (now - lastLiveFetch < 8000)"
CacheFresh(now) ==
    IsSome(cachedLiveData) /\ now - lastLiveFetch < CacheWindow

\* ---- the upstream feeds the model draws from ----
\* a stop-time update; dep and arr are None or Some(delay in seconds)
Stu(dep, arr) ==
    [departure |-> IF dep = None THEN None ELSE Some([delay |-> Get(dep)]),
     arrival |-> IF arr = None THEN None ELSE Some([delay |-> Get(arr)])]

Entity(tripId, stus) ==
    [tripUpdate |-> Some([trip |-> [tripId |-> tripId], stopTimeUpdate |-> stus])]

LiveFeeds ==
    { <<Entity("T1", <<Stu(Some(125), None)>>)>>,
      <<Entity("T1", <<Stu(Some(0), Some(60)), Stu(Some(300), None)>>),
        Entity("T2", <<Stu(None, Some(-30))>>)>> }

NumCallers == 2

Callers == 1..NumCallers

ClockStart == 100000

ClockStep == 4000

MaxTicks == 3

IdleCall == [pc |-> "idle", now |-> 0, result |-> None, path |-> "none"]

LiveInit ==
    /\ CalIdle
    /\ ClusterIdle
    /\ ServerIdle
    /\ ReqIdle
    /\ cachedLiveData = None
    /\ lastLiveFetch = 0
    /\ clock = ClockStart
    /\ call = [c \in Callers |-> IdleCall]

\* time passes
Tick ==
    /\ clock < ClockStart + MaxTicks * ClockStep
    /\ clock' = clock + ClockStep
    /\ UNCHANGED <<cachedLiveData, lastLiveFetch, call>>
    /\ UNCHANGED <<calVars, clusterVars, srvVars, reqVars>>

\* a caller enters getLiveFeed: a fresh cache is returned at once
CallHit(c) ==
    /\ call[c].pc = "idle"
    /\ CacheFresh(clock)
    /\ call' = [call EXCEPT ![c] = [pc |-> "done", now |-> clock,
                                    result |-> Some(Get(cachedLiveData)),
                                    path |-> "cache"]]
    /\ UNCHANGED <<cachedLiveData, lastLiveFetch, clock>>
    /\ UNCHANGED <<calVars, clusterVars, srvVars, reqVars>>

\* a caller enters getLiveFeed: otherwise the upstream fetch is started and awaited
CallMiss(c) ==
    /\ call[c].pc = "idle"
    /\ ~CacheFresh(clock)
    /\ call' = [call EXCEPT ![c] = [pc |-> "fetching", now |-> clock,
                                    result |-> None, path |-> "none"]]
    /\ UNCHANGED <<cachedLiveData, lastLiveFetch, clock>>
    /\ UNCHANGED <<calVars, clusterVars, srvVars, reqVars>>

\* the fetch and the decode succeed: the map is rebuilt, stored and returned
FetchOk(c) ==
    /\ call[c].pc = "fetching"
    /\ \E feed \in LiveFeeds :
          LET liveMap == BuildLiveMap(feed, EmptyMap)
          IN  /\ cachedLiveData' = Some(liveMap)
              /\ lastLiveFetch' = call[c].now
              /\ call' = [call EXCEPT ![c].pc = "done", ![c].result = Some(liveMap),
                                      ![c].path = "fetched"]
    /\ UNCHANGED clock
    /\ UNCHANGED <<calVars, clusterVars, srvVars, reqVars>>

\* the value the catch block returns
CatchResult == EmptyMap

\* the fetch rejects, the status is not ok, or the decode throws: the catch block
FetchFail(c) ==
    /\ call[c].pc = "fetching"
    /\ call' = [call EXCEPT ![c].pc = "done", ![c].result = Some(CatchResult),
                            ![c].path = "failed"]
    /\ UNCHANGED <<cachedLiveData, lastLiveFetch, clock>>
    /\ UNCHANGED <<calVars, clusterVars, srvVars, reqVars>>

\* the caller has used the result; it may call again
CallReturn(c) ==
    /\ call[c].pc = "done"
    /\ call' = [call EXCEPT ![c] = IdleCall]
    /\ UNCHANGED <<cachedLiveData, lastLiveFetch, clock>>
    /\ UNCHANGED <<calVars, clusterVars, srvVars, reqVars>>

LiveNext ==
    \/ Tick
    \/ \E c \in Callers : CallHit(c)
    \/ \E c \in Callers : CallMiss(c)
    \/ \E c \in Callers : FetchOk(c)
    \/ \E c \in Callers : FetchFail(c)
    \/ \E c \in Callers : CallReturn(c)

LiveSpec == LiveInit /\ [][LiveNext]_vars

\* C2: at most one upstream realtime fetch is outstanding at a time.
C2_SingleFetch ==
    Cardinality({c \in Callers : call[c].pc = "fetching"}) <= 1

\* C3: a failed fetch returns the previously cached map when there is one, and an
\* empty map only when none was ever stored.
C3_FailOpen ==
    [][\A c \in Callers :
          (call[c].pc = "fetching" /\ call'[c].pc = "done" /\ call'[c].path = "failed")
          => call'[c].result = (IF IsSome(cachedLiveData) THEN cachedLiveData
                                ELSE Some(EmptyMap))]_vars

\* C4: a call made while a cached map exists and is younger than 8000 ms returns
\* that map, starts no fetch, and leaves the map and its timestamp unchanged.
C4_FreshCacheReturned ==
    [][\A c \in Callers :
          (/\ call[c].pc = "idle" /\ call'[c].pc # "idle"
           /\ cachedLiveData # None
           /\ clock - lastLiveFetch < 8000)
          => /\ call'[c].pc = "done"
             /\ call'[c].result = cachedLiveData
             /\ cachedLiveData' = cachedLiveData
             /\ lastLiveFetch' = lastLiveFetch]_vars

\* a call answered from a map that was stored 4000 ms before it
C4_Witness ==
    \E c \in Callers :
        /\ call[c].pc = "done" /\ call[c].path = "cache"
        /\ cachedLiveData # None
        /\ call[c].result = cachedLiveData
        /\ DOMAIN Get(cachedLiveData) # {}
        /\ call[c].now - lastLiveFetch = ClockStep

\* the delay the first stop-time update carries: the departure delay when there
\* is one, else the arrival delay, else 0
FirstUpdateDelay(stu) ==
    IF stu.departure # None THEN Get(stu.departure).delay
    ELSE IF stu.arrival # None THEN Get(stu.arrival).delay
    ELSE 0

\* the same, a departure delay of 0 counting as none
FirstUpdateDelayZeroAsNone(stu) ==
    IF stu.departure # None /\ Get(stu.departure).delay # 0 THEN Get(stu.departure).delay
    ELSE IF stu.arrival # None THEN Get(stu.arrival).delay
    ELSE 0

Updating(feed) ==
    {i \in 1..Len(feed) : feed[i].tripUpdate # None
                          /\ Len(Get(feed[i].tripUpdate).stopTimeUpdate) > 0}

TripOf(feed, i) == Get(feed[i].tripUpdate).trip.tripId

\* the map of a feed: each trip with a non-empty update list, with the delay of
\* the first stop-time update of its (last) entity
FirstUpdateMap(feed, Delay(_)) ==
    [id \in {TripOf(feed, i) : i \in Updating(feed)} |->
        LET last == CHOOSE i \in Updating(feed) :
                        /\ TripOf(feed, i) = id
                        /\ \A j \in Updating(feed) : TripOf(feed, j) = id => j <= i
        IN  Delay(Get(feed[last].tripUpdate).stopTimeUpdate[1])]

Refreshed(c) == call[c].pc = "fetching" /\ call'[c].path = "fetched"

\* C20: the delay stored for a trip is taken from the first stop-time update
\* only: its departure delay when present (0 included), else its arrival delay,
\* else 0; and each successful refresh replaces the whole map.
C20_FirstStopTimeUpdate ==
    [][\A c \in Callers :
          Refreshed(c) => \E feed \in LiveFeeds :
                              cachedLiveData' = Some(FirstUpdateMap(feed, FirstUpdateDelay))]_vars

\* the same with a departure delay of 0 read as absent
C20_ZeroDepartureFallsThrough ==
    [][\A c \in Callers :
          Refreshed(c) => \E feed \in LiveFeeds :
                              cachedLiveData' = Some(FirstUpdateMap(feed, FirstUpdateDelayZeroAsNone))]_vars

\* C22: the live cache never goes backwards: the recorded last-fetch timestamp
\* is non-decreasing, whatever the order in which the fetches of interleaved
\* getLiveFeed calls complete (a map stored with a smaller timestamp is the
\* result of a fetch started earlier than the one whose result it replaces).
C22_CacheNeverBackwards == [][lastLiveFetch' >= lastLiveFetch]_vars

-----------------------------------------------------------------------------
(* Station clustering (the first, synchronous part of loadGtfsFilesToMemory) *)

\* String.prototype.trim, for the space character
RECURSIVE TrimStart(_)
TrimStart(str) == IF str # <<>> /\ Head(str) = " " THEN TrimStart(Tail(str)) ELSE str

RECURSIVE TrimEnd(_)
TrimEnd(str) == IF str # <<>> /\ str[Len(str)] = " "
                THEN TrimEnd(SubSeq(str, 1, Len(str) - 1)) ELSE str

Trim(str) == TrimEnd(TrimStart(str))

NEPOZNATA == <<"N", "E", "P", "O", "Z", "N", "A", "T", "A">>

\* "s.stop_name ? s.stop_name.trim() : 'NEPOZNATA'": the empty string is falsy
StopName(s) == IF s.stop_name # <<>> THEN Trim(s.stop_name) ELSE NEPOZNATA

\* the keys of stopsByName, in the order in which they were first set
RECURSIVE NamesInOrder(_, _)
NamesInOrder(stops, acc) ==
    IF stops = <<>> THEN acc
    ELSE LET name == StopName(Head(stops))
         IN  NamesInOrder(Tail(stops),
                          IF \E i \in 1..Len(acc) : acc[i] = name THEN acc ELSE Append(acc, name))

\* stopsByName[name]
StopsByName(stops, name) == SelectSeq(stops, LAMBDA s : StopName(s) = name)

Abs(x) == IF x < 0 THEN -x ELSE x

\* 0.02 degrees; coordinates are in thousandths of a degree
Tolerance == 20

\* the test with the two axes joined by "or"
WithinToleranceEitherAxis(s, seed) ==
    Abs(s.stop_lat - seed.stop_lat) < Tolerance \/ Abs(s.stop_lon - seed.stop_lon) < Tolerance

\* "Math.abs(lat - cLat) < 0.02 && Math.abs(lon - cLon) < 0.02", against cluster[0]
WithinTolerance(s, seed) ==
    Abs(s.stop_lat - seed.stop_lat) < Tolerance /\ Abs(s.stop_lon - seed.stop_lon) < Tolerance

Min(S) == CHOOSE x \in S : \A y \in S : x <= y

\* stopsGroup.forEach: a stop joins the first cluster whose first member is near
RECURSIVE AssignStops(_, _)
AssignStops(group, clusters) ==
    IF group = <<>> THEN clusters
    ELSE LET s == Head(group)
             near == {k \in 1..Len(clusters) : WithinTolerance(s, clusters[k][1])}
         IN  AssignStops(Tail(group),
                         IF near = {} THEN Append(clusters, <<s>>)
                         ELSE [clusters EXCEPT ![Min(near)] = Append(@, s)])

\* finalName of the cluster at (1-based) position k of n clusters
FinalName(name, n, k) ==
    IF n > 1 THEN name \o <<" ", "(">> \o NumStr(k) \o <<")">> ELSE name

\* cluster.forEach: every stop_id of the cluster maps to finalName
RECURSIVE MapStops(_, _, _)
MapStops(idToName, cluster, finalName) ==
    IF cluster = <<>> THEN idToName
    ELSE MapStops(MapSet(idToName, Head(cluster).stop_id, finalName), Tail(cluster), finalName)

\* the body of clusters.forEach on the maps built so far
RegisterCluster(b, cluster, finalName) ==
    [ stationLocations |->
          IF finalName \in DOMAIN b.stationLocations THEN b.stationLocations
          ELSE MapSet(b.stationLocations, finalName,
                      [lat |-> cluster[1].stop_lat, lon |-> cluster[1].stop_lon]),
      stopsIdToName |-> MapStops(b.stopsIdToName, cluster, finalName),
      staticSchedule |->
          IF finalName \in DOMAIN b.staticSchedule THEN b.staticSchedule
          ELSE MapSet(b.staticSchedule, finalName, <<>>),
      stationList |->
          IF finalName \in DOMAIN b.staticSchedule THEN b.stationList
          ELSE Append(b.stationList, finalName) ]

RECURSIVE RegisterClusters(_, _, _, _)
RegisterClusters(b, name, clusters, k) ==
    IF k > Len(clusters) THEN b
    ELSE RegisterClusters(RegisterCluster(b, clusters[k], FinalName(name, Len(clusters), k)),
                          name, clusters, k + 1)

\* "for (const name in stopsByName)"
RECURSIVE ClusterGroups(_, _, _)
ClusterGroups(b, stops, names) ==
    IF names = <<>> THEN b
    ELSE ClusterGroups(
            RegisterClusters(b, Head(names), AssignStops(StopsByName(stops, Head(names)), <<>>), 1),
            stops, Tail(names))

\* [...new Set(list)]: the first occurrence of each element is kept
RECURSIVE Dedupe(_, _)
Dedupe(list, acc) ==
    IF list = <<>> THEN acc
    ELSE Dedupe(Tail(list),
                IF \E i \in 1..Len(acc) : acc[i] = Head(list) THEN acc ELSE Append(acc, Head(list)))

\* Array.prototype.sort() on strings: ascending by code units
RECURSIVE InsertSorted(_, _)
InsertSorted(sorted, x) ==
    IF sorted = <<>> THEN <<x>>
    ELSE IF StrLess(x, Head(sorted)) THEN <<x>> \o sorted
    ELSE <<Head(sorted)>> \o InsertSorted(Tail(sorted), x)

RECURSIVE SortStrings(_, _)
SortStrings(list, acc) ==
    IF list = <<>> THEN acc ELSE SortStrings(Tail(list), InsertSorted(acc, Head(list)))

EmptyBuild ==
    [stationLocations |-> EmptyMap, stopsIdToName |-> EmptyMap,
     staticSchedule |-> EmptyMap, stationList |-> <<>>]

\* lines 285-344: the maps are reset, the stops grouped by name and clustered, and
\* the station list deduplicated and sorted
ClusterStations(stops) ==
    LET b == ClusterGroups(EmptyBuild, stops, NamesInOrder(stops, <<>>))
    IN  [b EXCEPT !.stationList = SortStrings(Dedupe(b.stationList, <<>>), <<>>)]

\* ---- ClusterSpec: the clustering on bounded stop tables ----

\* raw stop names: two that trim to "A", and the literal "A (1)"
RawNames == { <<"A">>, <<"A", " ">>, <<"A", " ", "(", "1", ")">> }

LatValues == {0, 15, 30}

LonValues == {0, 30}

MaxStops == 3

StopId(i) == <<"S">> \o NumStr(i)

\* stops.txt with one row per element of f; the stop_id column is a key
StopTable(f) ==
    [i \in 1..Len(f) |-> [stop_id |-> StopId(i), stop_name |-> f[i][1],
                          stop_lat |-> f[i][2], stop_lon |-> f[i][3]]]

ClusterInit ==
    /\ CalIdle
    /\ LiveIdle
    /\ ServerIdle
    /\ ReqIdle
    /\ \E k \in 0..MaxStops :
          \E f \in [1..k -> RawNames \X LatValues \X LonValues] : clStops = StopTable(f)
    /\ clPc = "ready"
    /\ clOut = EmptyBuild

Cluster ==
    /\ clPc = "ready"
    /\ clOut' = ClusterStations(clStops)
    /\ clPc' = "done"
    /\ UNCHANGED clStops
    /\ UNCHANGED <<calVars, liveVars, srvVars, reqVars>>

ClusterNext == Cluster

ClusterSpec == ClusterInit /\ [][ClusterNext]_vars

-----------------------------------------------------------------------------
(* Claims about the clustering (ClusterSpec)                                *)

StationOf(i) == clOut.stopsIdToName[clStops[i].stop_id]

SameName(i, j) == StopName(clStops[i]) = StopName(clStops[j])

\* closer than 0.02 degrees in both axes
Near(i, j) ==
    /\ Abs(clStops[i].stop_lat - clStops[j].stop_lat) < 20
    /\ Abs(clStops[i].stop_lon - clStops[j].stop_lon) < 20

\* more than 0.02 degrees apart in one axis at least
Far(i, j) ==
    \/ Abs(clStops[i].stop_lat - clStops[j].stop_lat) > 20
    \/ Abs(clStops[i].stop_lon - clStops[j].stop_lon) > 20

\* stop i is the first stop of its name that maps to its station: the seed
IsSeed(i) == \A j \in 1..(i - 1) : SameName(i, j) => StationOf(j) # StationOf(i)

SeedsOfName(i) == {j \in 1..Len(clStops) : SameName(i, j) /\ IsSeed(j)}

\* the name of the station of stop i by the suffix rule: " (k)" when the seed of
\* its cluster is the k-th seed of the name group, the bare name for a lone cluster
SuffixedName(i) ==
    LET seeds == SeedsOfName(i)
        mine == Min({j \in seeds : StationOf(j) = StationOf(i)})
        k == Cardinality({j \in seeds : j <= mine})
    IN  IF Cardinality(seeds) > 1
        THEN StopName(clStops[i]) \o <<" ", "(", DigitChar(k), ")">>
        ELSE StopName(clStops[i])

SeedOf(i) == Min({j \in 1..Len(clStops) : SameName(i, j) /\ StationOf(j) = StationOf(i)})

CoordinateOf(i) == [lat |-> clStops[i].stop_lat, lon |-> clStops[i].stop_lon]

\* stops are assigned in input order, each to the first cluster whose seed is
\* within tolerance of it in both axes, or to a new cluster when there is none
SeedAssignment ==
    \A i \in 1..Len(clStops) :
        LET near == {j \in 1..(i - 1) : SameName(i, j) /\ IsSeed(j) /\ Near(i, j)}
        IN  IF near # {} THEN SeedOf(i) = Min(near) ELSE SeedOf(i) = i

SeedCoordinate ==
    \A i \in 1..Len(clStops) : clOut.stationLocations[StationOf(i)] = CoordinateOf(SeedOf(i))

\* C19: within a name group each stop joins the first existing cluster whose seed
\* is within tolerance of it in both axes (seeds only, never other members), or
\* starts a new cluster; the representative coordinate of a stop's cluster is
\* the coordinate of the cluster's seed.
C19_SeedAndRepresentative == clPc = "done" => (SeedAssignment /\ SeedCoordinate)

\* no station takes stops of two names
NoNameCollision == \A i, j \in 1..Len(clStops) : StationOf(i) = StationOf(j) => SameName(i, j)

\* the assignment always follows the seeds, and the representative coordinate
\* is the seed's wherever no two clusters received the same name
C19_ApartFromCollisions ==
    clPc = "done" => (SeedAssignment /\ (NoNameCollision => SeedCoordinate))

\* the cluster of stop i: its name group and the seed of its cluster in the group
ClusterOf(i) == <<StopName(clStops[i]), SeedOf(i)>>

\* C24: after a build, distinct clusters are distinct logical stations: no two
\* clusters, of the same or of different name groups, receive the same logical
\* name, and the representative coordinate of every stop's station is the seed
\* coordinate of the stop's own cluster
C24_DistinctClustersDistinctStations ==
    clPc = "done" =>
        \A i, j \in 1..Len(clStops) :
            /\ ClusterOf(i) # ClusterOf(j) => StationOf(i) # StationOf(j)
            /\ clOut.stationLocations[StationOf(i)] = CoordinateOf(SeedOf(i))

-----------------------------------------------------------------------------
(* The timetable build: loadGtfsFilesToMemory                               *)

\* String.prototype.split(':')
RECURSIVE SplitColon(_, _, _)
SplitColon(str, cur, parts) ==
    IF str = <<>> THEN Append(parts, cur)
    ELSE IF Head(str) = ":" THEN SplitColon(Tail(str), <<>>, Append(parts, cur))
    ELSE SplitColon(Tail(str), Append(cur, Head(str)), parts)

\* parseInt of a string that starts with a digit: the leading digits, base 10
RECURSIVE ParseDigits(_, _)
ParseDigits(str, acc) ==
    IF str = <<>> \/ ~IsDigit(Head(str)) THEN acc
    ELSE ParseDigits(Tail(str), 10 * acc + DigitVal(Head(str)))

parseInt(str) == ParseDigits(str, 0)

NoTimeSentinel == 9999

timeToMinutes(timeStr) ==
    IF timeStr = <<>> THEN NoTimeSentinel
    ELSE LET parts == SplitColon(timeStr, <<>>, <<>>)
         IN  parseInt(parts[1]) * 60 + parseInt(parts[2])

\* String.prototype.substring(0, n)
Substring0(str, n) == SubSeq(str, 1, IF Len(str) < n THEN Len(str) ELSE n)

\* obj[k], undefined when the key is absent
Undefined == "undefined"

Lookup(m, k) == IF k \in DOMAIN m THEN m[k] ELSE Undefined

\* routes.forEach(r => routesMap[r.route_id] = r.route_short_name)
RECURSIVE BuildRoutesMap(_, _)
BuildRoutesMap(routes, acc) ==
    IF routes = <<>> THEN acc
    ELSE BuildRoutesMap(Tail(routes), MapSet(acc, Head(routes).route_id, Head(routes).route_short_name))

\* trips.forEach: the trips of the active services
RECURSIVE BuildActiveTrips(_, _, _)
BuildActiveTrips(trips, activeServices, acc) ==
    IF trips = <<>> THEN acc
    ELSE BuildActiveTrips(Tail(trips), activeServices,
            IF Head(trips).service_id \in activeServices
            THEN MapSet(acc, Head(trips).trip_id,
                        [headsign |-> Head(trips).trip_headsign, route_id |-> Head(trips).route_id])
            ELSE acc)

\* the record pushed for one stop_times row; line (history) is the row's position
\* in the stream
DepartureRecord(row, line, tripInfo, routes) ==
    [trip_id |-> row.trip_id,
     linija |-> Lookup(routes, tripInfo.route_id),
     smjer |-> tripInfo.headsign,
     timeMin |-> timeToMinutes(row.departure_time),
     timeStr |-> Substring0(row.departure_time, 5),
     line |-> line]

\* Array.prototype.sort((a, b) => a.timeMin - b.timeMin): stable
RECURSIVE InsertByTime(_, _)
InsertByTime(sorted, x) ==
    IF sorted = <<>> THEN <<x>>
    ELSE IF x.timeMin < Head(sorted).timeMin THEN <<x>> \o sorted
    ELSE <<Head(sorted)>> \o InsertByTime(Tail(sorted), x)

RECURSIVE SortByTime(_, _)
SortByTime(list, acc) ==
    IF list = <<>> THEN acc ELSE SortByTime(Tail(list), InsertByTime(acc, Head(list)))

\* "for (const station in staticSchedule) staticSchedule[station].sort(...)"
SortAll(schedule) == [st \in DOMAIN schedule |-> SortByTime(schedule[st], <<>>)]

-----------------------------------------------------------------------------
(* The feed the upstream publishes                                          *)

TimeOfDay(h, mi, sec) ==
    padStart(NumStr(h), 2, "0") \o <<":">> \o padStart(NumStr(mi), 2, "0")
        \o <<":">> \o padStart(NumStr(sec), 2, "0")

EveryDay(service, from, to) ==
    [service_id |-> service, sunday |-> "1", monday |-> "1", tuesday |-> "1",
     wednesday |-> "1", thursday |-> "1", friday |-> "1", saturday |-> "1",
     start_date |-> from, end_date |-> to]

\* stops S1 and S2 form the station A, S3 is the station B; the trips T1 and T3
\* run every day, T2 never; stop-times rows 1 and 2 share the minute 08:05, row 3
\* is of the inactive trip, row 4 names an unknown stop, row 5 is earlier than 1;
\* the name of stop S4 is a single space, and row 6 is a departure from it
UpstreamFeed ==
    [ routes |-> << [route_id |-> "R1", route_short_name |-> "6"] >>,
      stops |-> << [stop_id |-> StopId(1), stop_name |-> <<"A">>, stop_lat |-> 0, stop_lon |-> 0],
                   [stop_id |-> StopId(2), stop_name |-> <<"A", " ">>, stop_lat |-> 15, stop_lon |-> 0],
                   [stop_id |-> StopId(3), stop_name |-> <<"B">>, stop_lat |-> 0, stop_lon |-> 0],
                   [stop_id |-> StopId(4), stop_name |-> <<" ">>, stop_lat |-> 30, stop_lon |-> 30] >>,
      trips |-> << [trip_id |-> "T1", route_id |-> "R1", trip_headsign |-> "X", service_id |-> "WK"],
                   [trip_id |-> "T2", route_id |-> "R1", trip_headsign |-> "Y", service_id |-> "NO"],
                   [trip_id |-> "T3", route_id |-> "R1", trip_headsign |-> "Y", service_id |-> "WK"] >>,
      calendar |-> << EveryDay("WK", <<"2", "0", "0", "0", "0", "1", "0", "1">>,
                                     <<"2", "0", "9", "9", "1", "2", "3", "1">>) >>,
      calendarDates |-> <<>>,
      stopTimes |-> << [trip_id |-> "T1", departure_time |-> TimeOfDay(8, 5, 0), stop_id |-> StopId(1)],
                       [trip_id |-> "T3", departure_time |-> TimeOfDay(8, 5, 30), stop_id |-> StopId(2)],
                       [trip_id |-> "T2", departure_time |-> TimeOfDay(8, 0, 0), stop_id |-> StopId(1)],
                       [trip_id |-> "T1", departure_time |-> TimeOfDay(7, 59, 0), stop_id |-> StopId(9)],
                       [trip_id |-> "T3", departure_time |-> TimeOfDay(7, 30, 0), stop_id |-> StopId(1)],
                       [trip_id |-> "T1", departure_time |-> TimeOfDay(9, 0, 0), stop_id |-> StopId(4)] >> ]

\* a stop_times.txt line that holds the trip_id column only: cols[idxStop] is
\* undefined for it
TruncatedLine == [trip_id |-> "T1"]

\* the same archive with such a line at the end of stop_times.txt
TruncatedFeed == [UpstreamFeed EXCEPT !.stopTimes = Append(@, TruncatedLine)]

\* the archives the upstream serves
Archives == {UpstreamFeed, TruncatedFeed}

-----------------------------------------------------------------------------
(* The server: initializeSystem, the refresh timer, the request handlers    *)

TaskIds == {"init", "timer", "req"}

IdleTask ==
    [pc |-> "idle", downloaded |-> FALSE, stopsIdToName |-> EmptyMap,
     activeTripsMap |-> EmptyMap, lines |-> <<>>, pos |-> 0]

\* minutes since the epoch of a Date
Instant(now) == (now.day * 24 + now.hour) * 60 + now.min

getCurrentDateStr(now) == DateStr(now)

\* the instant of the next 04:00: "nextUpdate.setHours(4, 0, 0, 0);
\* if (now > nextUpdate) nextUpdate.setDate(nextUpdate.getDate() + 1)"
scheduleNextUpdate(now) ==
    LET nextUpdate == [now EXCEPT !.hour = 4, !.min = 0]
    IN  IF Instant(now) > Instant(nextUpdate)
        THEN setDate(nextUpdate, getDate(nextUpdate) + 1)
        ELSE nextUpdate

Snapshot ==
    [stationList |-> stationList, staticSchedule |-> staticSchedule,
     stationLocations |-> stationLocations]

InFlight(t) == task[t].pc \in {"download", "stream"}

\* the server is started on Sunday 2023-12-31 at noon, or at 02:00 that night
StartCivil == [y |-> 2023, m |-> 12, d |-> 31, h |-> 12, mi |-> 0]

NightStartCivil == [y |-> 2024, m |-> 1, d |-> 1, h |-> 2, mi |-> 0]

MaxDays == 1

Init ==
    /\ CalIdle
    /\ LiveIdle
    /\ ClusterIdle
    /\ ReqIdle
    /\ wall \in {NewDate(StartCivil), NewDate(NightStartCivil)}
    /\ disk = None
    /\ routesMap = EmptyMap
    /\ staticSchedule = EmptyMap
    /\ stationList = <<>>
    /\ stationLocations = EmptyMap
    /\ loadedDateStr = <<>>
    /\ task = [t \in TaskIds |-> IF t = "init" THEN [IdleTask EXCEPT !.pc = "download"]
                                 ELSE IdleTask]
    /\ timer = None
    /\ published = None
    /\ obs = None
    /\ builtFor = <<>>

\* what follows the end of a task's loadGtfsFilesToMemory, or its being skipped:
\* initializeSystem and the timer callback call scheduleNextUpdate
TimerAfter(t) == IF t \in {"init", "timer"} THEN Some(scheduleNextUpdate(wall)) ELSE timer

\* the order in which downloadAndUnzipGTFS extracts the files
ExtractOrder == <<"routes", "stops", "trips", "calendar", "calendarDates", "stopTimes">>

FileNames == {ExtractOrder[i] : i \in 1..Len(ExtractOrder)}

\* the files extracted before extractEntryTo throws on an entry the archive lacks
ExtractedBefore(entry) ==
    {ExtractOrder[i] : i \in {j \in 1..Len(ExtractOrder) :
                                 \E k \in 1..Len(ExtractOrder) : ExtractOrder[k] = entry /\ j < k}}

\* the files on disk after a run that extracted the given ones of the archive;
\* the archives differ in stop_times.txt only
AfterExtract(files, extracted, archive) ==
    LET missing == (IF files = None THEN FileNames ELSE Get(files).missing) \ extracted
        tables == IF "stopTimes" \in extracted THEN archive
                  ELSE IF files = None THEN UpstreamFeed ELSE Get(files).tables
    IN  IF missing = FileNames THEN None
        ELSE Some([tables |-> tables, missing |-> missing])

\* what a failed download leaves extracted: nothing when the fetch fails, the
\* files before calendar.txt or before calendar_dates.txt when the archive
\* lacks that entry
FailedExtracts == { {}, ExtractedBefore("calendar"), ExtractedBefore("calendarDates") }

CanRead(files, names) == files # None /\ Get(files).missing \cap names = {}

\* loadGtfsFilesToMemory up to the first await (lines 277-358), on the files
\* given; ok is what downloadAndUnzipGTFS resolved with
StartLoad(t, files, ok) ==
    /\ loadedDateStr' = getCurrentDateStr(wall)
    /\ IF ~CanRead(files, {"routes", "stops", "trips"})
       THEN \* readFileSync throws: the call rejects and so does its caller
            /\ task' = [task EXCEPT ![t] = [IdleTask EXCEPT !.pc = "threw", !.downloaded = ok]]
            /\ UNCHANGED <<routesMap, staticSchedule, stationList, stationLocations, builtFor>>
       ELSE LET feed == Get(files).tables
                b == ClusterStations(feed.stops)
                activeServices == getActiveServiceIds(wall, feed.calendar, feed.calendarDates)
            IN  /\ routesMap' = BuildRoutesMap(feed.routes, EmptyMap)
                /\ staticSchedule' = b.staticSchedule
                /\ stationList' = b.stationList
                /\ stationLocations' = b.stationLocations
                /\ IF ~CanRead(files, {"calendar", "calendarDates"})
                   THEN \* readFileSync throws in getActiveServiceIds, after the
                        \* maps were reset and the stations registered
                        /\ task' = [task EXCEPT ![t] = [IdleTask EXCEPT !.pc = "threw", !.downloaded = ok]]
                        /\ UNCHANGED builtFor
                   ELSE /\ task' = [task EXCEPT ![t] =
                              [pc |-> "stream",
                               downloaded |-> ok,
                               stopsIdToName |-> b.stopsIdToName,
                               activeTripsMap |-> BuildActiveTrips(feed.trips, activeServices, EmptyMap),
                               lines |-> feed.stopTimes,
                               pos |-> 0]]
                        /\ builtFor' = effectiveDateStr(wall)
    /\ UNCHANGED <<timer, published>>

\* downloadAndUnzipGTFS resolves true: the six files are extracted, and the caller
\* goes on to loadGtfsFilesToMemory
DownloadOk(t) ==
    /\ task[t].pc = "download"
    /\ \E archive \in Archives : disk' = AfterExtract(disk, FileNames, archive)
    /\ StartLoad(t, disk', TRUE)
    /\ obs' = None
    /\ UNCHANGED wall
    /\ UNCHANGED <<calVars, liveVars, clusterVars, reqVars>>

\* downloadAndUnzipGTFS resolves false, the fetch or an extraction having thrown.
\* The timer callback skips the load and re-arms; initializeSystem and the
\* request path load what is on disk
DownloadFail(t) ==
    /\ task[t].pc = "download"
    /\ \E extracted \in FailedExtracts : disk' = AfterExtract(disk, extracted, UpstreamFeed)
    /\ IF t = "timer"
       THEN /\ task' = [task EXCEPT ![t] = IdleTask]
            /\ timer' = Some(scheduleNextUpdate(wall))
            /\ UNCHANGED <<snapVars, published, builtFor>>
       ELSE StartLoad(t, disk', FALSE)
    /\ obs' = None
    /\ UNCHANGED wall
    /\ UNCHANGED <<calVars, liveVars, clusterVars, reqVars>>

\* one iteration of "for await (const line of rl)": the header line first, then
\* one row
StreamLine(t) ==
    /\ task[t].pc = "stream"
    /\ task[t].pos <= Len(task[t].lines)
    /\ IF task[t].pos = 0
       THEN /\ task' = [task EXCEPT ![t].pos = 1]
            /\ UNCHANGED staticSchedule
       ELSE LET row == task[t].lines[task[t].pos]
                stopName == Lookup(task[t].stopsIdToName, row.stop_id)
            IN  IF row.trip_id \in DOMAIN task[t].activeTripsMap
                   /\ "stop_id" \notin DOMAIN row
                THEN \* cols[idxStop] is undefined: .replace throws
                     /\ task' = [task EXCEPT ![t] = [IdleTask EXCEPT !.pc = "threw", !.downloaded = task[t].downloaded]]
                     /\ UNCHANGED staticSchedule
                ELSE
                IF row.trip_id \in DOMAIN task[t].activeTripsMap
                   /\ stopName # Undefined /\ stopName # <<>>
                THEN IF stopName \in DOMAIN staticSchedule
                     THEN /\ staticSchedule' =
                               [staticSchedule EXCEPT ![stopName] =
                                   Append(@, DepartureRecord(row, task[t].pos,
                                             task[t].activeTripsMap[row.trip_id], routesMap))]
                          /\ task' = [task EXCEPT ![t].pos = @ + 1]
                     ELSE \* staticSchedule[stopName] is undefined: push throws
                          /\ task' = [task EXCEPT ![t] = [IdleTask EXCEPT !.pc = "threw", !.downloaded = task[t].downloaded]]
                          /\ UNCHANGED staticSchedule
                ELSE /\ task' = [task EXCEPT ![t].pos = @ + 1]
                     /\ UNCHANGED staticSchedule
    /\ obs' = None
    /\ UNCHANGED builtFor
    /\ UNCHANGED <<wall, disk, routesMap, stationList, stationLocations, loadedDateStr,
                   timer, published>>
    /\ UNCHANGED <<calVars, liveVars, clusterVars, reqVars>>

\* the stream has ended: every list is sorted and loadGtfsFilesToMemory returns;
\* initializeSystem and the timer callback then arm the next timer
StreamEnd(t) ==
    /\ task[t].pc = "stream"
    /\ task[t].pos > Len(task[t].lines)
    /\ staticSchedule' = SortAll(staticSchedule)
    /\ task' = [task EXCEPT ![t] = [IdleTask EXCEPT !.pc = IF t = "init" THEN "done" ELSE "idle"]]
    /\ timer' = TimerAfter(t)
    /\ published' = Some([stationList |-> stationList, staticSchedule |-> staticSchedule',
                          stationLocations |-> stationLocations])
    /\ obs' = None
    /\ UNCHANGED builtFor
    /\ UNCHANGED <<wall, disk, routesMap, stationList, stationLocations, loadedDateStr>>
    /\ UNCHANGED <<calVars, liveVars, clusterVars, reqVars>>

\* the armed setTimeout fires: the callback starts the download
TimerFire ==
    /\ timer # None
    /\ Instant(wall) >= Instant(Get(timer))
    /\ task["timer"].pc = "idle"
    /\ task' = [task EXCEPT !["timer"].pc = "download"]
    /\ timer' = None
    /\ obs' = None
    /\ UNCHANGED builtFor
    /\ UNCHANGED <<wall, disk, snapVars, published>>
    /\ UNCHANGED <<calVars, liveVars, clusterVars, reqVars>>

\* the rollover test of app.get('/api/board')
Rollover ==
    /\ getHours(wall) >= 4
    /\ loadedDateStr # <<>>
    /\ loadedDateStr # getCurrentDateStr(wall)

\* GET /api/board up to the await of getLiveFeed: the rollover test, which may
\* start a download and rebuild, and the read of the station list and schedule
BoardRequest ==
    /\ IF Rollover
       THEN /\ loadedDateStr' = getCurrentDateStr(wall)
            /\ task' = [task EXCEPT !["req"] = [IdleTask EXCEPT !.pc = "download"]]
       ELSE UNCHANGED <<loadedDateStr, task>>
    /\ obs' = Some([view |-> Snapshot, prev |-> published,
                    rebuilding |-> \E t \in TaskIds : task[t].pc = "stream"])
    /\ UNCHANGED builtFor
    /\ UNCHANGED <<wall, disk, routesMap, staticSchedule, stationList, stationLocations,
                   timer, published>>
    /\ UNCHANGED <<calVars, liveVars, clusterVars, reqVars>>

\* the times of day the clock visits: 02:00, 04:00, 04:01, 12:00
NextWall(now) ==
    IF now.hour = 2 THEN [now EXCEPT !.hour = 4, !.min = 0]
    ELSE IF now.hour = 4 /\ now.min = 0 THEN [now EXCEPT !.min = 1]
    ELSE IF now.hour = 4 THEN [now EXCEPT !.hour = 12, !.min = 0]
    ELSE [day |-> now.day + 1, hour |-> 2, min |-> 0]

\* time passes. A due timer fires first, and a download or a build lasts seconds,
\* not hours: while one is in flight the clock only moves from 04:00 to 04:01
Advance ==
    /\ ~(timer # None /\ Instant(wall) >= Instant(Get(timer)))
    /\ (\E t \in TaskIds : InFlight(t)) => (wall.hour = 4 /\ wall.min = 0)
    /\ NextWall(wall).day <= NewDate(StartCivil).day + MaxDays
    /\ wall' = NextWall(wall)
    /\ obs' = None
    /\ UNCHANGED builtFor
    /\ UNCHANGED <<disk, snapVars, task, timer, published>>
    /\ UNCHANGED <<calVars, liveVars, clusterVars, reqVars>>

Next ==
    \/ \E t \in TaskIds : DownloadOk(t)
    \/ \E t \in TaskIds : DownloadFail(t)
    \/ \E t \in TaskIds : StreamLine(t)
    \/ \E t \in TaskIds : StreamEnd(t)
    \/ TimerFire
    \/ BoardRequest
    \/ Advance

Spec == Init /\ [][Next]_vars

-----------------------------------------------------------------------------
(* Claims about the timetable build and its readers                         *)

ListsOf(snapshot) == snapshot.staticSchedule

\* C1: while a rebuild is in progress, a read request is answered from the
\* complete previous snapshot: the station list, departure map and coordinate
\* map a reader observes between the start and the completion of a rebuild are
\* those of the last completed build.
C1_ReadersSeePreviousSnapshot ==
    (obs # None /\ Get(obs).rebuilding /\ Get(obs).prev # None)
        => Get(obs).view = Get(Get(obs).prev)

\* the station each stop of the feed belongs to, and the active services
FeedStationOf == ClusterStations(UpstreamFeed.stops).stopsIdToName

FeedActiveServices ==
    getActiveServiceIds(wall, UpstreamFeed.calendar, UpstreamFeed.calendarDates)

FeedTripService(tripId) ==
    LET i == CHOOSE k \in 1..Len(UpstreamFeed.trips) : UpstreamFeed.trips[k].trip_id = tripId
    IN  UpstreamFeed.trips[i].service_id

RowActive(i) == FeedTripService(UpstreamFeed.stopTimes[i].trip_id) \in FeedActiveServices

RowResolved(i) == UpstreamFeed.stopTimes[i].stop_id \in DOMAIN FeedStationOf

RowStation(i) == FeedStationOf[UpstreamFeed.stopTimes[i].stop_id]

RecordsOfRow(schedule, st, i) == {k \in 1..Len(schedule[st]) : schedule[st][k].line = i}

\* C9: after every completed build, every station's departure list is
\* non-decreasing in scheduled minute-of-day, and records of the same minute are
\* in the order in which their rows appeared in the stop-times stream.
C9_SortedStable ==
    published # None =>
        \A st \in DOMAIN ListsOf(Get(published)) :
            LET list == ListsOf(Get(published))[st]
            IN  \A i, j \in 1..Len(list) :
                    i < j => /\ list[i].timeMin <= list[j].timeMin
                             /\ list[i].timeMin = list[j].timeMin => list[i].line <= list[j].line

\* C10: after a build, every record of every station's list comes from a row of
\* an active trip whose stop_id resolves to that station; rows of inactive trips
\* and rows with an unresolved stop_id add no record and abort no build; every
\* row of an active trip with a resolved stop_id adds exactly one record.
C10_ExactlyTheActiveResolvedRows ==
    published # None =>
        LET schedule == ListsOf(Get(published))
        IN  /\ \A st \in DOMAIN schedule : \A k \in 1..Len(schedule[st]) :
                   LET i == schedule[st][k].line
                   IN  RowActive(i) /\ RowResolved(i) /\ RowStation(i) = st
            /\ \A t \in TaskIds : task[t].pc # "threw"
            /\ \A i \in 1..Len(UpstreamFeed.stopTimes) :
                   IF RowActive(i) /\ RowResolved(i)
                   THEN /\ RowStation(i) \in DOMAIN schedule
                        /\ Cardinality(RecordsOfRow(schedule, RowStation(i), i)) = 1
                   ELSE \A st \in DOMAIN schedule : RecordsOfRow(schedule, st, i) = {}

\* no download and no build is running, and none has thrown
AllRebuildsFinished == \A t \in TaskIds : task[t].pc \in {"idle", "done"}

\* C21: for any interleaving of the 04:00 refresh and a request-triggered
\* refresh, once all rebuilds have finished every stop-times row of an active
\* trip (whose stop resolves to a named station) appears exactly once in its
\* station's departure list: none is duplicated and none is lost.
C21_NoDuplicateNoLoss ==
    (published # None /\ AllRebuildsFinished) =>
        \A i \in 1..Len(UpstreamFeed.stopTimes) :
            (RowActive(i) /\ RowResolved(i) /\ RowStation(i) # <<>>) =>
                /\ RowStation(i) \in DOMAIN staticSchedule
                /\ Cardinality(RecordsOfRow(staticSchedule, RowStation(i), i)) = 1

-----------------------------------------------------------------------------
(* Claims about failures and the day rollover                               *)

\* task t starts loadGtfsFilesToMemory in this step with calendar.txt or
\* calendar_dates.txt missing and the other tables readable
LoadsWithoutCalendar(t) ==
    /\ task[t].pc = "download"
    /\ task'[t].pc # "download"
    /\ CanRead(disk', {"routes", "stops", "trips"})
    /\ ~CanRead(disk', {"calendar", "calendarDates"})

\* C16: when the calendar table or the calendar-exceptions table is missing, the
\* resolver treats it as empty and returns an active set instead of failing, and
\* the rebuild that called it goes on (to the stream, and so to completion).
C16_MissingCalendarTolerated ==
    [][\A t \in {"init", "req"} : LoadsWithoutCalendar(t) => task'[t].pc = "stream"]_vars

TimerDue == timer # None /\ Instant(wall) >= Instant(Get(timer))

\* C17: whenever a board request is handled and the service day the snapshot was
\* built for differs from the effective service day at the request, a rebuild is
\* triggered (or one is already on its way: a refresh in flight, or the timer due).
C17_RolloverTriggersRebuild ==
    [][(obs' # None /\ builtFor # <<>> /\ builtFor # effectiveDateStr(wall))
          => \/ task'["req"].pc = "download"
             \/ \E t \in TaskIds : InFlight(t)
             \/ TimerDue]_vars

\* C18: when the download fails, on the timer path or on the request path, the
\* station list, the departures and the coordinates are left unchanged.
C18_DownloadFailureKeepsSnapshot ==
    [][\A t \in {"timer", "req"} :
          (published # None /\ DownloadFail(t))
              => UNCHANGED <<stationList, staticSchedule, stationLocations>>]_vars

\* the same on the timer path alone
C18_TimerFailureKeepsSnapshot ==
    [][DownloadFail("timer") => UNCHANGED <<stationList, staticSchedule, stationLocations>>]_vars

\* initializeSystem has returned, so scheduleNextUpdate armed the first timer
ChainStarted == task["init"].pc = "done"

\* C23: the daily refresh chain never stops: once the first timer is armed, and
\* after every firing of it (the download failing, the rebuild succeeding or
\* the rebuild throwing), a scheduled refresh is pending (a timer is armed) or
\* running (the timer callback is in its download or its rebuild)
C23_RefreshChainNeverStops ==
    ChainStarted => (timer # None \/ InFlight("timer"))

-----------------------------------------------------------------------------
(* The board: app.get('/api/board') from the schedule to the response       *)

\* Number.prototype.toString of an integer
IntStr(n) == IF n < 0 THEN <<"-">> \o NumStr(-n) ELSE NumStr(n)

\* the % of JavaScript: the sign of the result is the sign of the dividend
JsRem(a, b) == IF a >= 0 THEN a % b ELSE -((-a) % b)

\* Math.round(num / den), den > 0: the nearest integer, halves towards +Infinity
MathRound(num, den) == (2 * num + den) \div (2 * den)

minutesToTime(mins) ==
    LET h0 == mins \div 60
        m == JsRem(mins, 60)
        h == IF h0 >= 24 THEN h0 - 24 ELSE h0
    IN  padStart(IntStr(h), 2, "0") \o <<":">> \o padStart(IntStr(m), 2, "0")

\* "let searchMinutes = currentMinutes; if (now.getHours() < 4) searchMinutes += 24 * 60"
SearchMinutes(now) ==
    LET currentMinutes == getHours(now) * 60 + getMinutes(now)
    IN  IF getHours(now) < NightCutoff THEN currentMinutes + 24 * 60 ELSE currentMinutes

WindowBefore == 10

WindowAfter == 90

LateTolerance == 2

BoardCap == 15

InWindowExclusiveEnd(trip, searchMinutes) ==
    trip.timeMin >= searchMinutes - WindowBefore /\ trip.timeMin < searchMinutes + WindowAfter

InWindow(trip, searchMinutes) ==
    trip.timeMin >= searchMinutes - WindowBefore /\ trip.timeMin <= searchMinutes + WindowAfter

HasLiveDelay(trip, liveDelays) == trip.trip_id \in DOMAIN liveDelays

FinalTimeMinTruncated(trip, liveDelays) ==
    IF HasLiveDelay(trip, liveDelays)
    THEN trip.timeMin + liveDelays[trip.trip_id] \div 60
    ELSE trip.timeMin

FinalTimeMin(trip, liveDelays) ==
    IF HasLiveDelay(trip, liveDelays)
    THEN trip.timeMin + MathRound(liveDelays[trip.trip_id], 60)
    ELSE trip.timeMin

\* the entry computed for a departure in the window; idx (history) is the
\* position of the departure in the schedule
BoardEntry(trip, idx, liveDelays, searchMinutes) ==
    [linija |-> trip.linija, smjer |-> trip.smjer,
     min |-> FinalTimeMin(trip, liveDelays) - searchMinutes,
     time |-> minutesToTime(FinalTimeMin(trip, liveDelays)),
     status |-> IF HasLiveDelay(trip, liveDelays) THEN "LIVE" ELSE "SCHED",
     idx |-> idx]

\* "for (const trip of schedule)": the entries computed, in schedule order
RECURSIVE ComputedEntries(_, _, _, _)
ComputedEntries(schedule, i, liveDelays, searchMinutes) ==
    IF i > Len(schedule) THEN <<>>
    ELSE (IF InWindow(schedule[i], searchMinutes)
          THEN <<BoardEntry(schedule[i], i, liveDelays, searchMinutes)>>
          ELSE <<>>)
         \o ComputedEntries(schedule, i + 1, liveDelays, searchMinutes)

KeptNotBeforeNow(entry) == entry.min >= 0

\* "if (minutesUntil >= -2) board.push(...)"
Kept(entry) == entry.min >= -LateTolerance

Pushed(entries) == SelectSeq(entries, Kept)

\* board.sort((a, b) => a.min - b.min): stable
RECURSIVE InsertByMin(_, _)
InsertByMin(sorted, x) ==
    IF sorted = <<>> THEN <<x>>
    ELSE IF x.min < Head(sorted).min THEN <<x>> \o sorted
    ELSE <<Head(sorted)>> \o InsertByMin(Tail(sorted), x)

RECURSIVE SortByMin(_, _)
SortByMin(list, acc) ==
    IF list = <<>> THEN acc ELSE SortByMin(Tail(list), InsertByMin(acc, Head(list)))

\* Array.prototype.slice(0, n)
Slice0(list, n) == SubSeq(list, 1, IF Len(list) < n THEN Len(list) ELSE n)

BoardOf(schedule, liveDelays, now) ==
    Slice0(SortByMin(Pushed(ComputedEntries(schedule, 1, liveDelays, SearchMinutes(now))), <<>>),
           BoardCap)

-----------------------------------------------------------------------------
(* BoardSpec: one board request on a given schedule and live map            *)

TripId(k) == <<"T">> \o NumStr(k)

\* the record of the k-th departure, timed t minutes after midnight of the
\* service day (hours run past 24 for trips after midnight)
DepartureAt(k, t) ==
    LET depTime == TimeOfDay(t \div 60, t % 60, 0)
    IN  [trip_id |-> TripId(k), linija |-> "6", smjer |-> "X",
         timeMin |-> timeToMinutes(depTime), timeStr |-> Substring0(depTime, 5)]

\* the times of day of the requests
BoardTimes == { <<0, 30>>, <<3, 59>>, <<4, 0>>, <<8, 0>>, <<23, 50>> }

BoardNows == { [day |-> 19723, hour |-> hm[1], min |-> hm[2]] : hm \in BoardTimes }

\* departure times relative to the comparison minute, around the window's bounds
EdgeOffsets == <<-11, -10, -2, 0, 35, 90, 91>>

\* the subsequence of seq at the positions in S
RECURSIVE Pick(_, _, _)
Pick(seq, S, i) ==
    IF i > Len(seq) THEN <<>>
    ELSE (IF i \in S THEN <<seq[i]>> ELSE <<>>) \o Pick(seq, S, i + 1)

\* a schedule longer than the board, with two departures in each minute
LongBoard == 17

LongOffsets == [k \in 1..LongBoard |-> k \div 2]

ScheduleAt(offsets, searchMinutes) ==
    [k \in 1..Len(offsets) |-> DepartureAt(k, searchMinutes + offsets[k])]

\* delays in seconds
Delays == {-151, -150, -30, 0, 29, 30, 50, 125, 86400}

DelayedTrips == 1..3

BoardInit ==
    /\ CalIdle
    /\ LiveIdle
    /\ ClusterIdle
    /\ ServerIdle
    /\ reqNow \in BoardNows
    /\ \E offsets \in {Pick(EdgeOffsets, S, 1) : S \in SUBSET (1..Len(EdgeOffsets))}
                      \cup {LongOffsets} :
           reqSchedule = ScheduleAt(offsets, SearchMinutes(reqNow))
    /\ \E ks \in {S \in SUBSET DelayedTrips : Cardinality(S) <= 1} :
           \E d \in Delays :
               reqLiveDelays = [id \in {TripId(k) : k \in ks} |-> d]
    /\ reqPc = "ready"
    /\ res = None
    /\ nearEntries = <<>>
    /\ nearPc = "idle"
    /\ nearRes = None

\* the handler from the schedule found to res.json; computed (history) holds
\* every entry the loop computed, pushed or not
Board ==
    /\ reqPc = "ready"
    /\ res' = Some([board |-> BoardOf(reqSchedule, reqLiveDelays, reqNow),
                    computed |-> ComputedEntries(reqSchedule, 1, reqLiveDelays,
                                                 SearchMinutes(reqNow))])
    /\ reqPc' = "done"
    /\ UNCHANGED <<reqNow, reqSchedule, reqLiveDelays, nearEntries, nearPc, nearRes>>
    /\ UNCHANGED <<calVars, liveVars, clusterVars, srvVars>>

BoardNext == Board

BoardSpec == BoardInit /\ [][BoardNext]_vars

-----------------------------------------------------------------------------
(* Claims about the board                                                   *)

\* the comparison minute, from the hour and minute of the request
ComparisonMinute == reqNow.hour * 60 + reqNow.min + (IF reqNow.hour < 4 THEN 1440 ELSE 0)

\* the minute a record's HH:MM denotes
MinuteOfText(t) ==
    (DigitVal(t[1]) * 10 + DigitVal(t[2])) * 60 + DigitVal(t[4]) * 10 + DigitVal(t[5])

Computed == Get(res).computed

IsComputed(i) == \E k \in 1..Len(Computed) : Computed[k].idx = i

C12_LiveAdjustment ==
    reqPc = "done" =>
        \A k \in 1..Len(Computed) :
            LET trip == reqSchedule[Computed[k].idx]
                shift == Computed[k].min + ComparisonMinute - trip.timeMin
            IN  IF trip.trip_id \in DOMAIN reqLiveDelays
                THEN /\ Computed[k].status = "LIVE"
                     /\ 60 * shift - 30 <= reqLiveDelays[trip.trip_id]
                     /\ reqLiveDelays[trip.trip_id] <= 60 * shift + 30
                ELSE /\ Computed[k].status = "SCHED"
                     /\ shift = 0

C12_Witness ==
    /\ reqPc = "done"
    /\ \E k \in 1..Len(Computed) :
           /\ Computed[k].status = "LIVE"
           /\ reqLiveDelays[reqSchedule[Computed[k].idx].trip_id] = 0
    /\ \E k \in 1..Len(Computed) : Computed[k].status = "SCHED"

Returned == Get(res).board

Survivors == {k \in 1..Len(Computed) : Computed[k].min >= -2}

IsReturned(k) == \E j \in 1..Len(Returned) : Returned[j] = Computed[k]

C14_DisplayTime ==
    reqPc = "done" =>
        \A j \in 1..Len(Returned) :
            LET final == Returned[j].min + ComparisonMinute
            IN  Returned[j].time =
                    padStart(NumStr((final \div 60) % 24), 2, "0") \o <<":">>
                        \o padStart(NumStr(final % 60), 2, "0")

\* the display time is right whenever the final minute is below 2880 (48:00)
C14_DisplayTimeBelowTwoDays ==
    reqPc = "done" =>
        \A j \in 1..Len(Returned) :
            LET final == Returned[j].min + ComparisonMinute
            IN  final < 2880 =>
                Returned[j].time =
                    padStart(NumStr((final \div 60) % 24), 2, "0") \o <<":">>
                        \o padStart(NumStr(final % 60), 2, "0")

-----------------------------------------------------------------------------
(* The nearest station: app.get('/api/nearest')                             *)

\* 5 km; distances are in metres
MaxDistance == 5000

\* "for (const [name, loc] of Object.entries(stationLocations))": closestStation
\* is null (None) and minDist Infinity (None) before the first entry
RECURSIVE NearestLoop(_, _, _)
NearestLoop(entries, closestStation, minDist) ==
    IF entries = <<>> THEN [closestStation |-> closestStation, minDist |-> minDist]
    ELSE IF minDist = None \/ Head(entries).dist < Get(minDist)
         THEN NearestLoop(Tail(entries), Some(Head(entries).name), Some(Head(entries).dist))
         ELSE NearestLoop(Tail(entries), closestStation, minDist)

\* a string or null as a condition: null and "" are falsy
Truthy(o) == o # None /\ Get(o) # <<>>

NearestOf(entries) ==
    LET found == NearestLoop(entries, None, None)
    IN  IF Truthy(found.closestStation) /\ Get(found.minDist) < MaxDistance
        THEN [name |-> found.closestStation, distance |-> found.minDist]
        ELSE [name |-> None, distance |-> None]

-----------------------------------------------------------------------------
(* NearestSpec: one nearest-station request on given stations and distances *)

\* station names; the trimmed name of a stop whose stop_name is blank is ""
StationNames == { <<>>, <<"X">>, <<"Y">> }

ProbeDistances == {2000, 4999, 5000, 5100}

MaxStations == 3

DistinctNames(f) == \A i, j \in DOMAIN f : i # j => f[i][1] # f[j][1]

NearestInit ==
    /\ CalIdle
    /\ LiveIdle
    /\ ClusterIdle
    /\ ServerIdle
    /\ reqNow = [day |-> 0, hour |-> 0, min |-> 0]
    /\ reqSchedule = <<>>
    /\ reqLiveDelays = <<>>
    /\ reqPc = "idle"
    /\ res = None
    /\ \E k \in 0..MaxStations : \E f \in [1..k -> StationNames \X ProbeDistances] :
           /\ DistinctNames(f)
           /\ nearEntries = [i \in 1..k |-> [name |-> f[i][1], dist |-> f[i][2]]]
    /\ nearPc = "ready"
    /\ nearRes = None

Nearest ==
    /\ nearPc = "ready"
    /\ nearRes' = Some(NearestOf(nearEntries))
    /\ nearPc' = "done"
    /\ UNCHANGED <<reqNow, reqSchedule, reqLiveDelays, reqPc, res, nearEntries>>
    /\ UNCHANGED <<calVars, liveVars, clusterVars, srvVars>>

NearestNext == Nearest

NearestSpec == NearestInit /\ [][NearestNext]_vars

DistanceTo(name) ==
    LET i == CHOOSE k \in 1..Len(nearEntries) : nearEntries[k].name = name
    IN  nearEntries[i].dist

MinDistance == Min({nearEntries[k].dist : k \in 1..Len(nearEntries)})

ReturnsNearest ==
    /\ Get(nearRes).name # None
    /\ DistanceTo(Get(Get(nearRes).name)) = MinDistance
    /\ Get(nearRes).distance = Some(MinDistance)

ReturnsNone == Get(nearRes).name = None

\* C15: the nearest-station query returns a station whose distance is the
\* minimum over all stations if that minimum is within 5 km, and reports no
\* match otherwise (also when there are no stations); it never returns a
\* station when a strictly closer one exists. At exactly 5 km either answer
\* is accepted.
C15_Nearest ==
    nearPc = "done" =>
        IF nearEntries = <<>> THEN ReturnsNone
        ELSE /\ MinDistance < 5000 => ReturnsNearest
             /\ MinDistance > 5000 => ReturnsNone
             /\ MinDistance = 5000 => (ReturnsNone \/ ReturnsNearest)

\* the same, when the nearest station's name is not empty
C15_NearestNamed ==
    (nearPc = "done" /\ \A k \in 1..Len(nearEntries) :
                            nearEntries[k].dist = MinDistance => nearEntries[k].name # <<>>)
        => C15_Nearest

-----------------------------------------------------------------------------
(* Reference calendar arithmetic for the claims: the civil calendar by case *)
(* analysis, independent of the day-number arithmetic of the Date object.   *)

PrevCivilDay(c) ==
    IF c.d > 1 THEN [c EXCEPT !.d = c.d - 1]
    ELSE IF c.m > 1 THEN [c EXCEPT !.m = c.m - 1, !.d = DaysInMonthCivil(c.y, c.m - 1)]
    ELSE [c EXCEPT !.y = c.y - 1, !.m = 12, !.d = 31]

\* the service day the night cutoff assigns to a wall-clock instant
ServiceDayCivil(c) == IF c.h >= 0 /\ c.h < 4 THEN PrevCivilDay(c) ELSE c

\* YYYYMMDD, digit by digit
CivilStr(c) ==
    << DigitChar(c.y \div 1000), DigitChar((c.y \div 100) % 10), DigitChar((c.y \div 10) % 10),
       DigitChar(c.y % 10), DigitChar(c.m \div 10), DigitChar(c.m % 10),
       DigitChar(c.d \div 10), DigitChar(c.d % 10) >>

\* day of the week of a civil date, 0 = Sunday (Sakamoto's method)
WeekdayCivil(c) ==
    LET t == <<0, 3, 2, 5, 0, 3, 5, 1, 4, 6, 2, 4>>
        y == IF c.m < 3 THEN c.y - 1 ELSE c.y
    IN  (y + (y \div 4) - (y \div 100) + (y \div 400) + t[c.m] + c.d) % 7

\* the number a string of digits denotes
RECURSIVE DateNum(_)
DateNum(str) == IF str = <<>> THEN 0
                ELSE 10 * DateNum(SubSeq(str, 1, Len(str) - 1)) + DigitVal(str[Len(str)])

\* C5: for every instant with local hour h, the effective service date is the
\* calendar day before the instant's date when 0 <= h < 4 and the instant's date
\* when h >= 4; the YYYYMMDD string and the weekday of the weekly-flag lookup are
\* both those of that one date, across month and year boundaries.
C5_NightCutoff ==
    calPc = "done" =>
        /\ effDateOut = CivilStr(ServiceDayCivil(calCivil))
        /\ todayOut = days[WeekdayCivil(ServiceDayCivil(calCivil)) + 1]
        /\ activeOut = {days[WeekdayCivil(ServiceDayCivil(calCivil)) + 1]}

\* 2024-01-01 before 04:00 resolved to Sunday 2023-12-31
C5_Witness ==
    /\ calPc = "done"
    /\ calCivil.y = 2024 /\ calCivil.m = 1 /\ calCivil.d = 1 /\ calCivil.h = 3
    /\ effDateOut = D1231
    /\ todayOut = "sunday"

-----------------------------------------------------------------------------
(* Claims about the exception pass and the weekly pass (CalSpec)            *)

AllServiceIds == ServiceIds \cup CalendarServiceIds

\* some calendar row of s has the flag of the service day's weekday set and
\* start_date <= D <= end_date, the dates compared as numbers
WeeklyActive(s) ==
    LET ref == ServiceDayCivil(calCivil)
        today == days[WeekdayCivil(ref) + 1]
        D == DateNum(CivilStr(ref))
    IN  \E i \in 1..Len(calendar) :
            /\ calendar[i].service_id = s
            /\ calendar[i][today] = "1"
            /\ DateNum(calendar[i].start_date) <= D
            /\ D <= DateNum(calendar[i].end_date)

\* the exception rows of s dated with the service day, by position
ExceptionIdx(s, type) ==
    { i \in 1..Len(calendarDates) :
        /\ calendarDates[i].service_id = s
        /\ calendarDates[i].date = CivilStr(ServiceDayCivil(calCivil))
        /\ calendarDates[i].exception_type = type }

Max(S) == CHOOSE x \in S : \A y \in S : y <= x

\* C6 as stated: a Removed row dated D removes a weekly-active service_id and an
\* Added row dated D adds a service_id, whatever the other exception rows are.
C6_ExceptionsAlwaysWin ==
    calPc = "done" =>
        \A s \in AllServiceIds :
            /\ (WeeklyActive(s) /\ ExceptionIdx(s, "2") # {}) => s \notin activeOut
            /\ ExceptionIdx(s, "1") # {} => s \in activeOut

\* C6 (amended): the last exception row dated D of a service_id decides. If it is
\* Removed the service_id is absent although the weekly calendar makes it active;
\* if it is Added the service_id is present although no weekly flag matches.
C6_LastExceptionWins ==
    calPc = "done" =>
        \A s \in AllServiceIds :
            LET dated == ExceptionIdx(s, "1") \cup ExceptionIdx(s, "2")
            IN  dated # {} =>
                    IF calendarDates[Max(dated)].exception_type = "2"
                    THEN s \notin activeOut
                    ELSE s \in activeOut

\* S1 runs by the weekly calendar but its only dated exception removes it, and S2
\* has no calendar row at all and is added
C6_Witness ==
    /\ calPc = "done"
    /\ WeeklyActive("S1") /\ ExceptionIdx("S1", "2") # {} /\ ExceptionIdx("S1", "1") = {}
    /\ "S1" \notin activeOut
    /\ ~WeeklyActive("S2") /\ ExceptionIdx("S2", "1") # {}
    /\ "S2" \in activeOut

\* C7: a service_id with no exception row dated D is active iff some weekly row
\* of it has the weekday flag set and start_date <= D <= end_date, inclusive.
C7_WeeklyRule ==
    calPc = "done" =>
        \A s \in AllServiceIds :
            { i \in 1..Len(calendarDates) :
                /\ calendarDates[i].service_id = s
                /\ calendarDates[i].date = CivilStr(ServiceDayCivil(calCivil)) } = {}
            => (s \in activeOut <=> WeeklyActive(s))

\* S1 is active through a row whose start_date and end_date both equal D, with an
\* exception row of S1 for another date present
C7_Witness ==
    /\ calPc = "done"
    /\ "S1" \in activeOut
    /\ \E i \in 1..Len(calendar) :
          /\ calendar[i].start_date = effDateOut /\ calendar[i].end_date = effDateOut
          /\ calendar[i][todayOut] = "1"
    /\ \E i \in 1..Len(calendarDates) : calendarDates[i].service_id = "S1"
    /\ \A i \in 1..Len(calendarDates) :
          calendarDates[i].service_id = "S1" => calendarDates[i].date # effDateOut

=============================================================================
